---------------------------- MODULE Spec2Model ----------------------------
(***************************************************************************)
(* A model of dataset.py: the lazily opened HDF5 datasets, the two         *)
(* class-balancing samplers and the padding/collation step.                *)
(*                                                                         *)
(* Example indices are 0-based as in the source; TLA+ sequences are        *)
(* 1-based, so row r of a numpy array is element r+1 of a sequence.        *)
(***************************************************************************)
EXTENDS Integers, Sequences, FiniteSets, TLC

VARIABLES
    \* ---- MinimumOccupancySampler (one instance, nondeterministic draws)
    labels,             \* the label matrix handed to the constructor
    sampling_mode,      \* the sampling_mode argument
    constructed,        \* whether __init__ returned an object
    label_to_idx_list,  \* self.label_to_idx_list
    label_to_length,    \* self.label_to_length
    longest_seq,        \* self.longest_seq
    data_source,        \* self.data_source, rows x classes
    data_length,        \* self.data_length, NoAttr when never assigned
    built,              \* history: data_source as __init__ left it
    stream,             \* the indices the last __iter__ returned
    called,             \* the last call: "init" or "iter"
    raised,             \* the exception the last call raised, or "none"
    \* ---- pad / sequential_collate
    batches,            \* the list of examples handed to sequential_collate
    locals,             \* its local variables once it has run
    returned,           \* the tuple it returned, << >> when it has not
    collate_raised,     \* the exception it raised, or "none"
    collate_pc,         \* "input", "returned" or "raised"
    \* ---- MultiBalancedSampler
    Y,                  \* the label matrix handed to the constructor
    replacement,        \* the replacement argument: "default", "True", "False"
    num_samples,        \* the num_samples argument; 0 stands for None (and 0)
    mb_constructed,     \* whether __init__ returned an object
    class_weights,      \* the local class_weights of __init__
    weights,            \* self._weights
    mb_len,             \* self._len
    mb_replacement,     \* self._replacement
    mb_stream,          \* the indices the last __iter__ returned
    mb_called,          \* the last call: "init" or "iter"
    mb_raised,          \* the exception the last call raised, or "none"
    \* ---- HDF5Dataset / EvalH5Dataset in a parent and its worker processes
    variant,            \* "HDF5Dataset" or "EvalH5Dataset"
    start_method,       \* how the loader starts workers: "fork" or "spawn"
    started,            \* started[p]: process p holds a replica of the dataset
    replica,            \* replica[p]: the handle attributes in process p
    opened,             \* opened[p]: long-lived File() calls made in process p
    calls,              \* calls[p]: __getitem__ calls made in process p
    last_use,           \* the last __getitem__, if any: <<[proc, index, handles read]>>
    \* ---- two MinimumOccupancySamplers built alike, with modelled generators
    seed,               \* the random_state argument both were built with
    np_random,          \* the state of numpy's process-global generator
    inst                \* inst[k]: the fields of sampler k and what it emitted

samplerVars == <<labels, sampling_mode, constructed, label_to_idx_list,
                 label_to_length, longest_seq, data_source, data_length,
                 built, stream, called, raised>>

collateVars == <<batches, locals, returned, collate_raised, collate_pc>>

multiVars == <<Y, replacement, num_samples, mb_constructed, class_weights,
               weights, mb_len, mb_replacement, mb_stream, mb_called, mb_raised>>

datasetVars == <<variant, start_method, started, replica, opened, calls, last_use>>

rngVars == <<seed, np_random, inst>>

vars == <<samplerVars, collateVars, multiVars, datasetVars, rngVars>>

----------------------------------------------------------------------------
(* Bounds of the model *)

\* rows of a label matrix
MaxExamples == 2
\* rows + columns of a label matrix
MaxShape == 5
\* examples in a batch
MaxBatch == 2
\* time steps of a sequence
MaxLen == 2
\* feature dimension of the data sequences
MaxDim == 1
\* the largest num_samples argument
MaxSamples == 2
\* worker processes of the loader
MaxWorkers == 2
\* __getitem__ calls per process
MaxCalls == 2
\* examples of a dataset
MaxItems == 2
\* the largest seed
MaxSeed == 1
\* __iter__ calls per sampler in the two-sampler specification
MaxEpochs == 2
\* rows and columns of the label matrix in the two-sampler specification
MaxRows == 3
MaxCols == 2

----------------------------------------------------------------------------
(* Helpers *)

Range(f) == {f[x] : x \in DOMAIN f}

\* All orderings of the finite set S, as sequences.
RECURSIVE Perms(_)
Perms(S) ==
    IF S = {} THEN {<< >>}
    ELSE UNION {{<<x>> \o p : p \in Perms(S \ {x})} : x \in S}

\* All sequences that take their k-th element from sets[k].
RECURSIVE Product(_)
Product(sets) ==
    IF Len(sets) = 0 THEN {<< >>}
    ELSE {<<x>> \o t : x \in Head(sets), t \in Product(Tail(sets))}

RECURSIVE MaxOf(_)
MaxOf(S) ==
    IF Cardinality(S) = 1 THEN CHOOSE x \in S : TRUE
    ELSE LET x == CHOOSE y \in S : TRUE
             m == MaxOf(S \ {x})
         IN IF x > m THEN x ELSE m

\* s[:n] for n >= 0
Take(s, n) == SubSeq(s, 1, IF n < Len(s) THEN n ELSE Len(s))

\* np.concatenate of the rows of a 2-D array: row-major flattening
RECURSIVE Concatenate(_)
Concatenate(rows) ==
    IF Len(rows) = 0 THEN << >> ELSE Head(rows) \o Concatenate(Tail(rows))

----------------------------------------------------------------------------
(* The parts of the state a specification of one component leaves alone *)

IdleSampler ==
    /\ labels = << >>
    /\ sampling_mode = "same"
    /\ constructed = FALSE
    /\ label_to_idx_list = << >>
    /\ label_to_length = << >>
    /\ longest_seq = 0
    /\ data_source = << >>
    /\ data_length = 0
    /\ built = << >>
    /\ stream = << >>
    /\ called = "idle"
    /\ raised = "none"

IdleCollate ==
    /\ batches = << >>
    /\ locals = << >>
    /\ returned = << >>
    /\ collate_raised = "none"
    /\ collate_pc = "idle"

IdleMulti ==
    /\ Y = << >>
    /\ replacement = "default"
    /\ num_samples = 0
    /\ mb_constructed = FALSE
    /\ class_weights = << >>
    /\ weights = << >>
    /\ mb_len = 0
    /\ mb_replacement = FALSE
    /\ mb_stream = << >>
    /\ mb_called = "idle"
    /\ mb_raised = "none"

IdleDataset ==
    /\ variant = "idle"
    /\ start_method = "fork"
    /\ started = << >>
    /\ replica = << >>
    /\ opened = << >>
    /\ calls = << >>
    /\ last_use = << >>

IdleRng ==
    /\ seed = 0
    /\ np_random = 0
    /\ inst = << >>

otherThanSampler == <<collateVars, multiVars, datasetVars, rngVars>>
otherThanCollate == <<samplerVars, multiVars, datasetVars, rngVars>>
otherThanMulti == <<samplerVars, collateVars, datasetVars, rngVars>>
otherThanDataset == <<samplerVars, collateVars, multiVars, rngVars>>
otherThanRng == <<samplerVars, collateVars, multiVars, datasetVars>>

----------------------------------------------------------------------------
(* MinimumOccupancySampler *)

\* data_length of an instance whose constructor took neither branch
NoAttr == -1
\* a cell of np.empty that was never written; it is never read before
\* _reshuffle overwrites it
Uninit == -2

Modes == {"same", "over", "other"}

\* labels.shape
DataSamples(L) == Len(L)
NLabels(L) == IF Len(L) = 0 THEN 0 ELSE Len(L[1])

LabelMatrices(n, c) == [1..n -> [1..c -> {0, 1}]]

\* np.where(labels[:, lb_idx] == 1)[0]: the 0-based rows active in class lb_idx
LabelIndexes(L, lb_idx) == {i - 1 : i \in {j \in 1..Len(L) : L[j][lb_idx] = 1}}

\* every outcome of random_state.shuffle over all the classes
ShuffledLists(L) ==
    Product([c \in 1..NLabels(L) |-> Perms(LabelIndexes(L, c))])

\* np.empty((longest, n)) with the first leng rows of each column filled
InitialDataSource(idx, longest) ==
    [r \in 1..longest |->
        [c \in 1..Len(idx) |-> IF r <= Len(idx[c]) THEN idx[c][r] ELSE Uninit]]

DataLengthFor(mode, n, longest, c) ==
    IF mode = "same" THEN n
    ELSE IF mode = "over" THEN longest * c
    ELSE NoAttr

\* The first class, in loop order, at which _reshuffle raises: its list is
\* empty and at least one row is left over (randint(0, size > 0)); 0 if none.
\* self is a record of the instance's fields.
FailingClass(self) ==
    LET bad == {c \in 1..Len(self.label_to_length) :
                  self.label_to_length[c] = 0 /\ self.longest_seq > 0}
    IN IF bad = {} THEN 0 ELSE CHOOSE c \in bad : \A d \in bad : c <= d

\* the columns _reshuffle rewrites before it returns or raises
Rewritten(self) ==
    IF FailingClass(self) = 0 THEN 1..Len(self.label_to_length)
    ELSE 1..(FailingClass(self) - 1)

\* A slip of _reshuffle: the drawn positions are written as they are
\* (data_source[leng:, ix] = random_idxs), not the examples at those positions.
ReshuffleWritesPositions(self, random_idxs) ==
    [r \in 1..self.longest_seq |->
        [c \in 1..Len(self.label_to_length) |->
            IF c \in Rewritten(self) /\ r > self.label_to_length[c]
            THEN random_idxs[c][r - self.label_to_length[c]]
            ELSE self.data_source[r][c]]]

\* data_source[leng:, ix] = label_to_idx_list[ix][random_idxs], the draws
\* random_idxs[ix] being leftover positions in 0..leng-1
ReshuffleWith(self, random_idxs) ==
    [r \in 1..self.longest_seq |->
        [c \in 1..Len(self.label_to_length) |->
            IF c \in Rewritten(self) /\ r > self.label_to_length[c]
            THEN self.label_to_idx_list[c][random_idxs[c][r - self.label_to_length[c]] + 1]
            ELSE self.data_source[r][c]]]

\* np.concatenate(data_source[random_indices])[:data_length]
StreamOf(ds, random_indices, n) ==
    Take(Concatenate([r \in 1..Len(random_indices) |-> ds[random_indices[r] + 1]]), n)

\* the instance of the sampler specification, as a record of its fields
Self ==
    [label_to_idx_list |-> label_to_idx_list, label_to_length |-> label_to_length,
     longest_seq |-> longest_seq, data_source |-> data_source,
     data_length |-> data_length]

\* every outcome of np.random.randint(leng, size=leftover) over the classes
\* that are rewritten
RandomIdxs ==
    Product([c \in 1..Len(label_to_length) |->
               IF c \in Rewritten(Self)
               THEN [1..(longest_seq - label_to_length[c]) -> 0..(label_to_length[c] - 1)]
               ELSE {<< >>}])

\* every (buffer, stream) pair one __iter__ call that returns can produce
IterOutcomes ==
    LET perms == Perms(0..(longest_seq - 1))
    IN {<<ReshuffleWith(Self, random_idxs),
          StreamOf(ReshuffleWith(Self, random_idxs), random_indices, data_length)>> :
            random_idxs \in RandomIdxs, random_indices \in perms}

ConstructSampler ==
    \E n \in 1..MaxExamples : \E c \in 0..(MaxShape - n) :
      \E L \in LabelMatrices(n, c), mode \in Modes :
        /\ labels = L
        /\ sampling_mode = mode
        /\ called = "init"
        /\ stream = << >>
        /\ IF NLabels(L) = 0
           THEN \* max() of an empty list
                /\ constructed = FALSE
                /\ raised = "ValueError"
                /\ label_to_idx_list = << >>
                /\ label_to_length = << >>
                /\ longest_seq = 0
                /\ data_source = << >>
                /\ built = << >>
                /\ data_length = NoAttr
           ELSE \E idx \in ShuffledLists(L) :
                LET lens == [k \in 1..NLabels(L) |-> Len(idx[k])]
                    longest == MaxOf(Range(lens))
                IN /\ constructed = TRUE
                   /\ raised = "none"
                   /\ label_to_idx_list = idx
                   /\ label_to_length = lens
                   /\ longest_seq = longest
                   /\ data_source = InitialDataSource(idx, longest)
                   /\ built = InitialDataSource(idx, longest)
                   /\ data_length = DataLengthFor(mode, DataSamples(L), longest, NLabels(L))

\* __iter__: _reshuffle, permutation, concatenate, truncate
Iterate ==
    /\ constructed
    /\ called' = "iter"
    /\ IF FailingClass(Self) # 0 \/ longest_seq = 0
       THEN \* randint(0, size=leftover) with leftover > 0 after the earlier
            \* columns were rewritten, or np.concatenate of no rows
            /\ \E random_idxs \in RandomIdxs :
                 data_source' = ReshuffleWith(Self, random_idxs)
            /\ raised' = "ValueError"
            /\ stream' = << >>
       ELSE IF data_length = NoAttr
       THEN /\ \E random_idxs \in RandomIdxs :
                 data_source' = ReshuffleWith(Self, random_idxs)
            /\ raised' = "AttributeError"
            /\ stream' = << >>
       ELSE /\ \E out \in IterOutcomes :
                 /\ data_source' = out[1]
                 /\ stream' = out[2]
            /\ raised' = "none"
    /\ UNCHANGED <<labels, sampling_mode, constructed, label_to_idx_list,
                   label_to_length, longest_seq, data_length, built>>
    /\ UNCHANGED otherThanSampler

\* __len__: self.data_length, an AttributeError when it was never assigned
Length == data_length

InitSampler == ConstructSampler /\ IdleCollate /\ IdleMulti /\ IdleDataset /\ IdleRng

NextSampler == Iterate

SpecSampler == InitSampler /\ [][NextSampler]_vars

----------------------------------------------------------------------------
(* pad and sequential_collate *)

\* the feature dimension of a frame target: np.stack((noise, speech), axis=-1)
TargetDim == 2
Vals == {0, 1}

\* A 2-D tensor [time, dim]: its shape and its frames.
Tensor(frames, dim) == [shape |-> <<Len(frames), dim>>, val |-> frames]

\* the sequences of at most MaxLen frames of dimension dim, each frame
\* repeating one value over its features
Sequences2D(dim, values) ==
    UNION {{Tensor([t \in 1..n |-> [k \in 1..dim |-> f[t]]], dim) :
              f \in [1..n -> values]} : n \in 0..MaxLen}

\* (data, target_time, target_clip, fname) as __getitem__ returns them
Examples(dim) ==
    [data : Sequences2D(dim, Vals), target_time : Sequences2D(TargetDim, {1}),
     target_clip : {<<1, 0>>}, fname : {"f"}]

\* A slip of pad: the copy stops one step early (out[i, :length-1] = ...).
PadOneStepShort(tensorlist, padding_value) ==
    LET lengths == [i \in 1..Len(tensorlist) |-> Len(tensorlist[i].val)]
        max_len == MaxOf(Range(lengths))
        data_dim == tensorlist[1].shape[2]
    IN [out |-> [shape |-> <<Len(lengths), max_len, data_dim>>,
                 val |-> [i \in 1..Len(lengths) |->
                           [t \in 1..max_len |->
                              IF t < lengths[i] THEN tensorlist[i].val[t]
                              ELSE [k \in 1..data_dim |-> padding_value]]]],
        lengths |-> lengths]

\* pad(tensorlist, padding_value): (out_tensor, torch.tensor(lengths))
Pad(tensorlist, padding_value) ==
    LET lengths == [i \in 1..Len(tensorlist) |-> Len(tensorlist[i].val)]
        max_len == MaxOf(Range(lengths))
        batch_dim == Len(lengths)
        data_dim == tensorlist[1].shape[2]
    IN [out |-> [shape |-> <<batch_dim, max_len, data_dim>>,
                 val |-> [i \in 1..batch_dim |->
                           [t \in 1..max_len |->
                              IF t <= lengths[i] THEN tensorlist[i].val[t]
                              ELSE [k \in 1..data_dim |-> padding_value]]]],
        lengths |-> lengths]

\* the shape of a 1-D tensor
Shape1D(v) == <<Len(v)>>

InputBatch ==
    /\ \E dim \in 1..MaxDim : \E b \in 0..MaxBatch :
         batches \in [1..b -> Examples(dim)]
    /\ locals = << >>
    /\ returned = << >>
    /\ collate_raised = "none"
    /\ collate_pc = "input"

sequential_collate ==
    /\ collate_pc = "input"
    /\ IF Len(batches) = 0
       THEN \* zip(*[]) yields nothing to unpack
            /\ collate_raised' = "ValueError"
            /\ collate_pc' = "raised"
            /\ UNCHANGED <<locals, returned>>
       ELSE LET data == Pad([i \in 1..Len(batches) |-> batches[i].data], 0)
                tar == Pad([i \in 1..Len(batches) |-> batches[i].target_time], 0)
                l == [data |-> data.out, lengths_data |-> data.lengths,
                      targets_time |-> tar.out, lengths_tar |-> tar.lengths,
                      targets_clip |-> [i \in 1..Len(batches) |-> batches[i].target_clip],
                      fnames |-> [i \in 1..Len(batches) |-> batches[i].fname]]
            IN /\ locals' = l
               /\ IF Shape1D(l.lengths_data) = Shape1D(l.lengths_tar)
                  THEN /\ returned' = <<l.data, l.targets_time, l.targets_clip,
                                        l.fnames, l.lengths_tar>>
                       /\ collate_raised' = "none"
                       /\ collate_pc' = "returned"
                  ELSE /\ returned' = << >>
                       /\ collate_raised' = "AssertionError"
                       /\ collate_pc' = "raised"
    /\ UNCHANGED batches
    /\ UNCHANGED otherThanCollate

InitCollate == InputBatch /\ IdleSampler /\ IdleMulti /\ IdleDataset /\ IdleRng

NextCollate == sequential_collate

SpecCollate == InitCollate /\ [][NextCollate]_vars

----------------------------------------------------------------------------
(* MultiBalancedSampler *)

\* The floats of __init__, kept exact: <<n, d>> with d > 0 is n/d in lowest
\* terms, <<1, 0>> is inf and <<0, 0>> is nan.
RECURSIVE Gcd(_, _)
Gcd(a, b) == IF b = 0 THEN a ELSE Gcd(b, a % b)

Inf == <<1, 0>>
NaN == <<0, 0>>
IsFinite(a) == a[2] # 0
Rat(n, d) == LET g == Gcd(n, d) IN IF n = 0 THEN <<0, 1>> ELSE <<n \div g, d \div g>>

\* a + b
FAdd(a, b) ==
    IF a = NaN \/ b = NaN THEN NaN
    ELSE IF a = Inf \/ b = Inf THEN Inf
    ELSE Rat(a[1] * b[2] + b[1] * a[2], a[2] * b[2])

\* a / b for a, b >= 0; 0/0 and inf/inf are nan, x/0 is inf
FDiv(a, b) ==
    IF a = NaN \/ b = NaN THEN NaN
    ELSE IF a = Inf THEN (IF b = Inf THEN NaN ELSE Inf)
    ELSE IF b = Inf THEN <<0, 1>>
    ELSE IF b[1] = 0 THEN (IF a[1] = 0 THEN NaN ELSE Inf)
    ELSE Rat(a[1] * b[2], a[2] * b[1])

RECURSIVE FSum(_)
FSum(v) == IF Len(v) = 0 THEN <<0, 1>> ELSE FAdd(Head(v), FSum(Tail(v)))

\* for finite a, b
FLe(a, b) == a[1] * b[2] <= b[1] * a[2]
FLt(a, b) == a[1] * b[2] < b[1] * a[2]

\* np.sum(Y, axis=0)
ClassCounts(M) ==
    [c \in 1..NLabels(M) |-> Cardinality({i \in 1..Len(M) : M[i][c] = 1})]

\* A slip of __init__: the line class_weights / class_weights.sum() is missing.
ClassWeightsNotNormalised(M) ==
    [c \in 1..NLabels(M) |-> FDiv(<<1, 1>>, <<ClassCounts(M)[c], 1>>)]

\* class_weights = 1. / class_counts; class_weights / class_weights.sum()
ClassWeights(M) ==
    LET inverse == [c \in 1..NLabels(M) |-> FDiv(<<1, 1>>, <<ClassCounts(M)[c], 1>>)]
    IN [c \in 1..NLabels(M) |-> FDiv(inverse[c], FSum(inverse))]

\* tuple(classes.compress(idx)): the classes active in row i (1-based here)
ClassIds(M, i) == {c \in 1..NLabels(M) : M[i][c] = 1}

RECURSIVE SetToSeq(_)
SetToSeq(S) ==
    IF S = {} THEN << >>
    ELSE LET x == CHOOSE y \in S : \A z \in S : y <= z
         IN <<x>> \o SetToSeq(S \ {x})

\* np.mean(class_weights[np.array(class_ids[i])])
SampleWeight(cw, ids) ==
    FDiv(FSum([k \in 1..Cardinality(ids) |-> cw[SetToSeq(ids)[k]]]),
         <<Cardinality(ids), 1>>)

\* self._len = num_samples if num_samples else len(Y)
LenFor(ns, M) == IF ns # 0 THEN ns ELSE Len(M)

\* what torch.multinomial(w, n, repl) can return; {} when it raises: a
\* weight that is negative, inf or nan, weights that sum to 0, or more
\* draws than categories without replacement
Multinomial(w, n, repl) ==
    LET support == {i \in 1..Len(w) : FLt(<<0, 1>>, w[i])}
        draws == [1..n -> {i - 1 : i \in support}]
    IN IF \E i \in 1..Len(w) : ~IsFinite(w[i]) \/ w[i][1] < 0 THEN {}
       ELSE IF support = {} THEN {}
       ELSE IF repl THEN draws
       ELSE IF n > Len(w) THEN {}
       ELSE {f \in draws : \A j, k \in 1..n : j # k => f[j] # f[k]}

ConstructMulti ==
    \E n \in 1..MaxExamples : \E c \in 0..(MaxShape - n) :
      \E M \in LabelMatrices(n, c), repl \in {"default", "True", "False"},
         ns \in 0..MaxSamples :
        /\ Y = M
        /\ replacement = repl
        /\ num_samples = ns
        /\ mb_called = "init"
        /\ mb_stream = << >>
        /\ class_weights = ClassWeights(M)
        /\ IF \E i \in 1..Len(M) : ClassIds(M, i) = {}
           THEN \* class_weights[np.array(())]: a float array used as an index
                /\ mb_constructed = FALSE
                /\ mb_raised = "IndexError"
                /\ weights = << >>
                /\ mb_len = 0
                /\ mb_replacement = FALSE
           ELSE /\ mb_constructed = TRUE
                /\ mb_raised = "none"
                /\ weights = [i \in 1..Len(M) |->
                                SampleWeight(ClassWeights(M), ClassIds(M, i))]
                /\ mb_len = LenFor(ns, M)
                \* def __init__(self, Y, replacement=False, num_samples=None)
                /\ mb_replacement = (repl = "True")

\* __iter__: iter(torch.multinomial(self._weights, self._len, self._replacement).tolist())
IterateMulti ==
    /\ mb_constructed
    /\ mb_called' = "iter"
    /\ IF Multinomial(weights, mb_len, mb_replacement) = {}
       THEN /\ mb_raised' = "RuntimeError"
            /\ mb_stream' = << >>
       ELSE /\ mb_raised' = "none"
            /\ mb_stream' \in Multinomial(weights, mb_len, mb_replacement)
    /\ UNCHANGED <<Y, replacement, num_samples, mb_constructed, class_weights,
                   weights, mb_len, mb_replacement>>
    /\ UNCHANGED otherThanMulti

InitMulti == ConstructMulti /\ IdleSampler /\ IdleCollate /\ IdleDataset /\ IdleRng

NextMulti == IterateMulti

SpecMulti == InitMulti /\ [][NextMulti]_vars

----------------------------------------------------------------------------
(* HDF5Dataset and EvalH5Dataset *)

\* Process 0 is the parent, which constructs the dataset; 1..MaxWorkers are
\* the loader's workers.
Parent == 0
Workers == 1..MaxWorkers
Procs == {Parent} \cup Workers

\* self.dataset = None, self.label_dataset = None, self._dataset = None
None == << >>
\* File(path, 'r') called in process p: a handle that belongs to p; k tells
\* the handles one process opens apart
File(path, p, k) == <<path, p, k>>
Opener(h) == h[2]

Unopened == [dataset |-> None, label_dataset |-> None]

\* The lazy open of __getitem__: if self.dataset is None, open the store(s).
\* EvalH5Dataset has the one attribute _dataset and no label store.
LazyOpen(r, p, k) ==
    IF r.dataset = None
    THEN [dataset |-> File("h5file", p, k),
          label_dataset |-> IF variant = "HDF5Dataset"
                            THEN File("h5label", p, k) ELSE None]
    ELSE r

ConstructDataset ==
    /\ variant \in {"HDF5Dataset", "EvalH5Dataset"}
    /\ start_method \in {"fork", "spawn"}
    /\ started = [p \in Procs |-> p = Parent]
    \* __init__ only peeks datadim through a handle it closes again
    /\ replica = [p \in Procs |-> Unopened]
    /\ opened = [p \in Procs |-> 0]
    /\ calls = [p \in Procs |-> 0]
    /\ last_use = << >>

\* The loader starts worker w with a replica of the parent's dataset object:
\* a fork copies the attributes as they are, open handles included; a spawn
\* pickles the object, which an open h5py File does not allow.
StartWorker(w) ==
    /\ ~started[w]
    /\ start_method = "spawn" => replica[Parent].dataset = None
    /\ started' = [started EXCEPT ![w] = TRUE]
    /\ replica' = [replica EXCEPT ![w] = replica[Parent]]
    /\ UNCHANGED <<variant, start_method, opened, calls, last_use>>
    /\ UNCHANGED otherThanDataset

\* __getitem__(index) in process p
GetItem(p, index) ==
    /\ started[p]
    /\ calls[p] < MaxCalls
    /\ LET r == LazyOpen(replica[p], p, opened[p] + 1)
       IN /\ replica' = [replica EXCEPT ![p] = r]
          /\ opened' = [opened EXCEPT ![p] = IF replica[p].dataset = None
                                               THEN @ + 1 ELSE @]
          /\ last_use' = <<[proc |-> p, index |-> index, handle |-> r.dataset,
                             label_handle |-> r.label_dataset]>>
    /\ calls' = [calls EXCEPT ![p] = @ + 1]
    /\ UNCHANGED <<variant, start_method, started>>
    /\ UNCHANGED otherThanDataset

InitDataset == ConstructDataset /\ IdleSampler /\ IdleCollate /\ IdleMulti /\ IdleRng

NextDataset ==
    \/ \E w \in Workers : StartWorker(w)
    \/ \E p \in Procs : \E index \in 0..(MaxItems - 1) : GetItem(p, index)

SpecDataset == InitDataset /\ [][NextDataset]_vars

----------------------------------------------------------------------------
(* Two MinimumOccupancySamplers and the generators they draw from *)

\* A generator is its state, a number below RngMod; a draw is a function of
\* the state and moves it on. (numpy's is a Mersenne Twister; all that
\* matters here is that a draw is decided by the state of the generator it
\* is taken from.)
RngMod == 8
Advance(g) == (5 * g + 3) % RngMod
\* randint(n) taken from a generator in state g
RandInt(g, n) == g % n
\* np.random.RandomState(seed=random_state)
RandomState(sd) == sd % RngMod

Swap(x, i, j) == [x EXCEPT ![i] = x[j], ![j] = x[i]]

\* shuffle(x) from state g: for i = n-1 .. 1, swap x[i] with x[randint(i+1)].
\* i is the 0-based position the loop is at. The result is [x, g].
RECURSIVE ShuffleFrom(_, _, _)
ShuffleFrom(x, i, g) ==
    IF i < 1 THEN [x |-> x, g |-> g]
    ELSE ShuffleFrom(Swap(x, i + 1, RandInt(g, i + 1) + 1), i - 1, Advance(g))

Shuffle(x, g) == ShuffleFrom(x, Len(x) - 1, g)

\* permutation(n) from state g
Permutation(n, g) == Shuffle([k \in 1..n |-> k - 1], g)

\* the loop of __init__ from class c on: shuffle each class's sorted indexes
\* with self.random_state. The result is [lists, g].
RECURSIVE ShuffleClasses(_, _, _)
ShuffleClasses(L, c, g) ==
    IF c > NLabels(L) THEN [lists |-> << >>, g |-> g]
    ELSE LET one == Shuffle(SetToSeq(LabelIndexes(L, c)), g)
             rest == ShuffleClasses(L, c + 1, one.g)
         IN [lists |-> <<one.x>> \o rest.lists, g |-> rest.g]

\* MinimumOccupancySampler(L, mode, random_state=sd), for a matrix with at
\* least one class
SeededSampler(L, mode, sd) ==
    LET sh == ShuffleClasses(L, 1, RandomState(sd))
        lens == [k \in 1..NLabels(L) |-> Len(sh.lists[k])]
        longest == MaxOf(Range(lens))
    IN [label_to_idx_list |-> sh.lists, label_to_length |-> lens,
        longest_seq |-> longest,
        data_source |-> InitialDataSource(sh.lists, longest),
        data_length |-> DataLengthFor(mode, DataSamples(L), longest, NLabels(L)),
        random_state |-> sh.g,
        emitted |-> << >>]

\* size draws of randint(n) from state g. The result is [x, g].
RECURSIVE Draws(_, _, _)
Draws(n, size, g) ==
    IF size = 0 THEN [x |-> << >>, g |-> g]
    ELSE LET rest == Draws(n, size - 1, Advance(g))
         IN [x |-> <<RandInt(g, n)>> \o rest.x, g |-> rest.g]

\* the draws of _reshuffle from class c on, taken from the generator in state
\* g, up to the class at which it raises. The result is [idxs, g].
RECURSIVE ReshuffleDraws(_, _, _)
ReshuffleDraws(self, c, g) ==
    IF c > Len(self.label_to_length) THEN [idxs |-> << >>, g |-> g]
    ELSE IF c \notin Rewritten(self)
    THEN LET rest == ReshuffleDraws(self, c + 1, g)
         IN [idxs |-> << << >> >> \o rest.idxs, g |-> rest.g]
    ELSE LET one == Draws(self.label_to_length[c],
                          self.longest_seq - self.label_to_length[c], g)
             rest == ReshuffleDraws(self, c + 1, one.g)
         IN [idxs |-> <<one.x>> \o rest.idxs, g |-> rest.g]

\* _reshuffle draws with np.random.randint: the process-global generator.
ReshuffleGenerator(self) == np_random

ConstructTwoSamplers ==
    /\ seed \in 0..MaxSeed
    /\ np_random \in 0..(RngMod - 1)
    /\ \E n \in 1..MaxRows : \E c \in 1..MaxCols :
         \E L \in LabelMatrices(n, c), mode \in Modes :
           inst = [k \in 1..2 |-> SeededSampler(L, mode, seed)]

\* __iter__ of sampler k
IterateSeeded(k) ==
    LET self == inst[k]
        d == ReshuffleDraws(self, 1, ReshuffleGenerator(self))
        ds == ReshuffleWith(self, d.idxs)
        perm == Permutation(self.longest_seq, self.random_state)
    IN /\ Len(self.emitted) < MaxEpochs
       /\ np_random' = d.g
       /\ IF FailingClass(self) # 0 \/ self.longest_seq = 0
          THEN inst' = [inst EXCEPT ![k].data_source = ds,
                          ![k].emitted = Append(@, [raised |-> "ValueError",
                                                    stream |-> << >>])]
          ELSE IF self.data_length = NoAttr
          THEN inst' = [inst EXCEPT ![k].data_source = ds,
                          ![k].random_state = perm.g,
                          ![k].emitted = Append(@, [raised |-> "AttributeError",
                                                    stream |-> << >>])]
          ELSE inst' = [inst EXCEPT ![k].data_source = ds,
                          ![k].random_state = perm.g,
                          ![k].emitted = Append(@,
                              [raised |-> "none",
                               stream |-> StreamOf(ds, perm.x, self.data_length)])]
       /\ UNCHANGED seed
       /\ UNCHANGED otherThanRng

\* any other code of the process that draws from np.random
OtherCodeDraws ==
    /\ np_random' = Advance(np_random)
    /\ UNCHANGED <<seed, inst>>
    /\ UNCHANGED otherThanRng

InitRng ==
    ConstructTwoSamplers /\ IdleSampler /\ IdleCollate /\ IdleMulti /\ IdleDataset

NextRng ==
    \/ \E k \in 1..2 : IterateSeeded(k)
    \/ OtherCodeDraws

SpecRng == InitRng /\ [][NextRng]_vars

----------------------------------------------------------------------------
(* Claims about MinimumOccupancySampler *)

Classes == 1..NLabels(labels)
EveryExampleActive == \A i \in 1..Len(labels) : \E c \in Classes : labels[i][c] = 1
EveryClassActive == \A c \in Classes : \E i \in 1..Len(labels) : labels[i][c] = 1
ValidMode == sampling_mode \in {"same", "over"}

\* C1: in mode 'same' or 'over', for a label matrix in which every example
\* has an active class and every class an active example, the stream of
\* every __iter__ call holds, for every class, the index of an example
\* active in that class.
C1_EveryClassInStream ==
    (constructed /\ ValidMode /\ EveryExampleActive /\ EveryClassActive
        /\ called = "iter")
    => /\ raised = "none"
       /\ \A c \in Classes :
            \E k \in 1..Len(stream) : labels[stream[k] + 1][c] = 1

\* C2: in mode 'same' or 'over', for a label matrix whose every example has
\* an active class, __len__ is the dataset size (mode 'same') or
\* longest x num_classes (mode 'over') before and after every __iter__
\* call, and every __iter__ call emits exactly that many indices.
C2_StreamLengthIsLen ==
    (constructed /\ ValidMode /\ EveryExampleActive)
    => /\ Length = DataLengthFor(sampling_mode, DataSamples(labels),
                                 longest_seq, NLabels(labels))
       /\ called = "iter" => (raised = "none" /\ Len(stream) = Length)

\* C6: no sampler object exists whose sampling_mode is outside {same, over}
\* or whose label matrix has a class without an active example:
\* construction raised instead.
C6_FailFast ==
    (~ValidMode \/ ~EveryClassActive) => (~constructed /\ raised # "none")

----------------------------------------------------------------------------
(* Claims about pad and sequential_collate *)

TimeLen(x) == Len(x.val)

\* C3: sequential_collate never returns a batch for an input in which some
\* example's feature sequence and frame-target sequence differ in time
\* length: it raises instead.
C3_MismatchRejected ==
    collate_pc = "returned" =>
        \A i \in 1..Len(batches) :
            TimeLen(batches[i].data) = TimeLen(batches[i].target_time)

\* what C7 says of one call of pad: inputs, padded tensor, length vector
PaddedAsClaimed(inputs, out, lengths) ==
    LET lens == [i \in 1..Len(inputs) |-> TimeLen(inputs[i])]
        d == inputs[1].shape[2]
    IN /\ out.shape = <<Len(inputs), MaxOf(Range(lens)), d>>
       /\ Len(out.val) = out.shape[1]
       /\ lengths = lens
       /\ \A i \in 1..Len(inputs) :
            /\ Len(out.val[i]) = out.shape[2]
            /\ \A t \in 1..out.shape[2] :
                 out.val[i][t] = IF t <= lens[i] THEN inputs[i].val[t]
                                 ELSE [k \in 1..d |-> 0]

----------------------------------------------------------------------------
(* Claims about MultiBalancedSampler *)

MBClasses == 1..NLabels(Y)
MBEveryClassActive == \A c \in MBClasses : \E i \in 1..Len(Y) : Y[i][c] = 1
MBNoZeroRow == \A i \in 1..Len(Y) : \E c \in MBClasses : Y[i][c] = 1

\* C5 as stated: for a dense 0/1 matrix without all-zero rows (here even
\* one whose every class has an active example) the per-example weights are
\* non-negative and sum to 1.
C5_WeightsSumToOne ==
    (mb_constructed /\ MBNoZeroRow /\ MBEveryClassActive) =>
      /\ \A i \in 1..Len(weights) : IsFinite(weights[i]) /\ weights[i][1] >= 0
      /\ FSum(weights) = <<1, 1>>

\* C5 as amended: for a dense 0/1 matrix without all-zero rows every
\* per-example weight is a number in [0, 1]; when every class has an active
\* example the per-class weights sum to 1 and every per-example weight is
\* positive. (The per-example weights need not sum to 1.)
C5_WeightsValid ==
    (mb_constructed /\ MBNoZeroRow) =>
      /\ Len(weights) = Len(Y)
      /\ \A i \in 1..Len(weights) :
           /\ IsFinite(weights[i])
           /\ FLe(<<0, 1>>, weights[i])
           /\ FLe(weights[i], <<1, 1>>)
      /\ MBEveryClassActive =>
           /\ FSum(class_weights) = <<1, 1>>
           /\ \A i \in 1..Len(weights) : FLt(<<0, 1>>, weights[i])

\* A many-hot matrix whose examples get different weights that do not sum
\* to 1.
C5_Witness ==
    /\ mb_constructed /\ MBEveryClassActive
    /\ Len(Y) >= 2
    /\ \E i \in 1..Len(Y) : Cardinality(ClassIds(Y, i)) >= 2
    /\ weights[1] # weights[2]
    /\ FSum(weights) # <<1, 1>>

\* C8: a sampler built from a valid label matrix and a draw count larger
\* than the number of examples, with no replacement setting, emits on every
\* __iter__ call exactly __len__ indices, each a valid example index.
C8_DefaultDrawsWithReplacement ==
    (mb_constructed /\ MBEveryClassActive /\ replacement = "default"
        /\ num_samples > Len(Y) /\ mb_called = "iter")
    => /\ mb_raised = "none"
       /\ Len(mb_stream) = mb_len
       /\ \A k \in 1..Len(mb_stream) : mb_stream[k] \in 0..(Len(Y) - 1)

----------------------------------------------------------------------------
(* Claims about HDF5Dataset and EvalH5Dataset *)

\* C4: the long-lived handle is unopened when construction returns; in
\* every worker it is opened by that worker's first __getitem__ call and
\* exactly once; and whatever the interleaving of calls in the parent and
\* the workers, no process reads through a handle another process opened.
C4_OneHandlePerWorker ==
    /\ \A p \in Procs :
         /\ calls[p] = 0 => opened[p] = 0
         /\ opened[p] <= 1
    /\ \A w \in Workers : (started[w] /\ calls[w] >= 1) => opened[w] = 1
    /\ \A k \in 1..Len(last_use) :
         /\ Opener(last_use[k].handle) = last_use[k].proc
         /\ last_use[k].label_handle # None =>
              Opener(last_use[k].label_handle) = last_use[k].proc

----------------------------------------------------------------------------
(* Claims about the generators of MinimumOccupancySampler *)

\* C10: two samplers built with the same label matrix, sampling mode and
\* seed emit the same indices on their k-th __iter__ call, for every k,
\* whatever else draws from the process-global generator in between.
C10_SameSeedSameStreams ==
    \A k \in 1..MaxEpochs :
        (k <= Len(inst[1].emitted) /\ k <= Len(inst[2].emitted))
        => inst[1].emitted[k] = inst[2].emitted[k]

=============================================================================
